---- MODULE Spec2Model ----
(***************************************************************************)
(* Demand-forecast pipeline of siprems-backend: MLEngine (ml_engine.py),   *)
(* the Celery tasks (tasks/ml_tasks.py) and the services around them.      *)
(*                                                                         *)
(* Units.  Quantities are whole units.  Values in linear space that come   *)
(* out of expm1 (y_pred, yhat, yhat_lower, yhat_upper) are integers in     *)
(* millionths of a unit, so the 1e-6 of the ratio is 1.  Ratios and the    *)
(* correction factor are in hundredths (0.85 is 85), the accuracy score    *)
(* is in tenths of a percent (100.0 is 1000), y_log is in tenths.          *)
(* A float is <<"fin", n>>, <<"inf", 0>> (+inf) or <<"nan", 0>>.           *)
(***************************************************************************)
EXTENDS Integers, Sequences, FiniteSets, TLC

VARIABLES
    sales,      \* transactions aggregated per day, per SKU (get_sales_data)
    modelFile,  \* MODELS_DIR/model_<sku>.json
    metaFile,   \* META_DIR/meta_<sku>.json
    nextRun,    \* number of trainings that reached the fit so far
    pc,         \* per worker: the statement it is at
    op,         \* per worker: the locals of the call it executes
    result,     \* per worker: what its last call returned or raised
    started,    \* calls started so far
    tasks,      \* the Celery tasks submitted so far, by task id
    productTable,     \* the committed rows of the table products
    transactionTable, \* the committed rows of the table transactions
    sequence,         \* the last product_id and transaction_id handed out
    session           \* per client: the database session of its call

vars == <<sales, modelFile, metaFile, nextRun, pc, op, result, started, tasks,
          productTable, transactionTable, sequence, session>>

engineVars == <<sales, modelFile, metaFile, nextRun, pc, op, result, started, tasks>>
dbVars == <<productTable, transactionTable, sequence, session>>

----------------------------------------------------------------------------
(* Bounds of the model *)

MaxOps == 3

----------------------------------------------------------------------------
(* Floats with the two special values the code can produce *)

Fin(n) == <<"fin", n>>
PosInf == <<"inf", 0>>
NaN == <<"nan", 0>>

IsNaN(a) == a[1] = "nan"

\* a < b as IEEE compares: every comparison with NaN is false
FLt(a, b) ==
    IF IsNaN(a) \/ IsNaN(b) THEN FALSE
    ELSE IF a[1] = "inf" THEN FALSE
    ELSE IF b[1] = "inf" THEN TRUE
    ELSE a[2] < b[2]

\* Python's min(a, b): b when b < a, else a
PyMin(a, b) == IF FLt(b, a) THEN b ELSE a

\* Python's max(a, b): b when b > a, else a
PyMax(a, b) == IF FLt(a, b) THEN b ELSE a

\* (a + b) / 2 without leaving 32 bits
FMean2(a, b) ==
    IF IsNaN(a) \/ IsNaN(b) THEN NaN
    ELSE IF a[1] = "inf" \/ b[1] = "inf" THEN PosInf
    ELSE Fin((a[2] \div 2) + (b[2] \div 2) + (((a[2] % 2) + (b[2] % 2)) \div 2))

Abs(n) == IF n < 0 THEN 0 - n ELSE n

\* The one element of a singleton.  Only({e(x) : x \in {d}}) is e with x
\* standing for the value of d, evaluated once.
Only(S) == CHOOSE x \in S : TRUE

\* The sequence s, as an enumerated tuple
Listed(s) == s \o <<>>

\* s[lo] + ... + s[hi], by halves to keep the recursion shallow
RECURSIVE SumRange(_, _, _)
SumRange(s, lo, hi) ==
    IF hi < lo THEN 0
    ELSE IF hi = lo THEN s[lo]
    ELSE SumRange(s, lo, (lo + hi) \div 2) + SumRange(s, ((lo + hi) \div 2) + 1, hi)

SumTo(s, k) == SumRange(s, 1, k)

SumSeq(s) == SumTo(s, Len(s))

\* The k-th smallest of the floats in s, none of them NaN
Kth(s, k) ==
    LET i == CHOOSE i \in 1..Len(s) :
                 /\ Cardinality({j \in 1..Len(s) : FLt(s[j], s[i])}) < k
                 /\ k <= Cardinality({j \in 1..Len(s) : ~FLt(s[i], s[j])})
    IN  s[i]

\* numpy.median: NaN when any element is NaN, else the middle of the sorted
\* values, the mean of the two middle ones for an even count
Median(s) ==
    IF \E i \in 1..Len(s) : IsNaN(s[i]) THEN NaN
    ELSE IF Len(s) % 2 = 1 THEN Kth(s, (Len(s) + 1) \div 2)
    ELSE Only({FMean2(a, b) : a \in {Kth(s, Len(s) \div 2)},
                              b \in {Kth(s, (Len(s) \div 2) + 1)}})

----------------------------------------------------------------------------
(* Products and their sales history *)

Products == {"A", "B"}
Skus == Products \cup {"X"}      \* "X" is a SKU no product has
Workers == {"w1", "w2"}

Row(ds, y, promo) == [ds |-> ds, y |-> y, promo |-> promo]

\* three days of sales
H3 == <<Row(1, 10, 0), Row(2, 10, 1), Row(3, 20, 0)>>
\* five days of sales, none on day 4
H5 == <<Row(1, 0, 0), Row(2, 0, 1), Row(3, 10, 0), Row(5, 20, 0), Row(6, 10, 0)>>

\* sixty days of about ten units and one day, the 30th, of 10,000
H61 == [i \in 1..61 |->
           Row(i, IF i = 30 THEN 10000 ELSE IF i % 7 = 0 THEN 20 ELSE 10, 0)]
\* five days of the same quantity
H5Flat == [i \in 1..5 |-> Row(i, 10, 0)]

\* The sales table the runs start from: "A" has enough history to train
\* on, "B" has not, "X" has none
SalesTables == {[s \in Skus |-> CASE s = "A" -> H5 [] s = "B" -> H3 [] OTHER -> <<>>]}

\* get_sales_data: the daily rows of the SKU, ordered by date; empty for a
\* SKU without transactions
get_sales_data(sku) == sales[sku]

----------------------------------------------------------------------------
(* Preprocessing: log transform and 3.5 sigma outlier removal *)

MinObservations == 5

\* TooFew that only refuses an empty frame
TooFewOnlyEmpty(df) == Len(df) = 0

\* lines 87 and 101: df.empty or len(df) < 5
TooFew(df) == Len(df) = 0 \/ Len(df) < MinObservations

\* numpy.log1p, in tenths, on the quantities of the histories
Log1p(q) ==
    CASE q = 0 -> 0
      [] q = 1 -> 7
      [] q = 5 -> 18
      [] q = 10 -> 24
      [] q = 20 -> 30
      [] q = 10000 -> 92

YLog(df) == [i \in 1..Len(df) |-> Log1p(df[i].y)]

\* n * (x - mean) for each x: the deviations, kept integral
Deviations(x) ==
    Only({[i \in 1..Len(x) |-> (Len(x) * x[i]) - total] : total \in {SumSeq(x)}})

SumSquares(d) == SumSeq([i \in 1..Len(d) |-> d[i] * d[i]])

\* |x - mu| <= 3.5 * std with std the sample deviation (ddof = 1):
\* 4 (n - 1) d^2 <= 49 * sum of d^2, d the deviations times n, ssq the sum
\* of their squares
\* a band of less than half a sigma
WithinNarrowBand(d, ssq, i) == d[i] * d[i] <= ssq \div (5 * (Len(d) - 1))

\* (the quotient keeps the comparison within 32 bits)

WithinSigma(d, ssq, i) == d[i] * d[i] <= (49 * ssq) \div (4 * (Len(d) - 1))

\* the rows of df at the indices in keep, in their order
RECURSIVE SelectRows(_, _, _)
SelectRows(df, keep, k) ==
    IF k = 0 THEN <<>>
    ELSE SelectRows(df, keep, k - 1) \o (IF k \in keep THEN <<df[k]>> ELSE <<>>)

\* lines 95-98: rows beyond 3.5 sigma are dropped when std > 0
RemoveOutliers(df) ==
    Only({ Only({ IF ssq > 0
                  THEN SelectRows(df, {i \in 1..Len(df) : WithinSigma(d, ssq, i)},
                                  Len(df))
                  ELSE df :
                  ssq \in {SumSquares(d)} }) :
           d \in {Listed(Deviations(YLog(df)))} })

----------------------------------------------------------------------------
(* Calibration: correction factor and accuracy *)

FactorLow == 85
FactorHigh == 115
Epsilon == 1

\* y_true / (y_pred + 1e-6) in hundredths; numpy gives inf or nan on a zero
\* denominator
Ratio(yTrue, yPred) ==
    LET den == yPred + Epsilon
    IN  IF den = 0 THEN (IF yTrue = 0 THEN NaN ELSE PosInf)
        ELSE Fin((yTrue * 100000000) \div den)

Ratios(df, yPred) == [i \in 1..Len(df) |-> Ratio(df[i].y, yPred[i])]

\* ClampFactor without its lower bound
ClampFactorUpperOnly(cf) == PyMin(Fin(FactorHigh), cf)

\* max(0.85, min(1.15, correction_factor))
ClampFactor(cf) == PyMax(Fin(FactorLow), PyMin(Fin(FactorHigh), cf))

correction_factor(df, yPred) ==
    Only({ Only({ClampFactor(m)[2] : m \in {Median(rs)}}) :
           rs \in {Listed(Ratios(df, yPred))} })

\* |y_true - y_pred| / max(|y_true|, eps) in thousandths; a term that alone
\* lifts the mean to 1 or more is kept at 1000 * n
AbsPctError(yTrue, yPred, n) ==
    IF yTrue = 0 THEN (IF yPred = 0 THEN 0 ELSE 1000 * n)
    ELSE LET e == Abs((yTrue * 1000000) - yPred) \div (yTrue * 1000)
         IN  IF e > 1000 * n THEN 1000 * n ELSE e

\* sklearn's mean_absolute_percentage_error, in thousandths
Mape(df, yPred) ==
    SumSeq([i \in 1..Len(df) |-> AbsPctError(df[i].y, yPred[i], Len(df))]) \div Len(df)

IntMin(a, b) == IF b < a THEN b ELSE a
IntMax(a, b) == IF b > a THEN b ELSE a

\* accuracy_score without the two caps
accuracy_score_uncapped(mape) == Only({1000 - m : m \in {mape}})

\* max(0, 100 * (1 - min(mape, 1.0))), in tenths of a percent
accuracy_score(mape) == Only({IntMax(0, 1000 - IntMin(m, 1000)) : m \in {mape}})

\* What the forecasting collaborator returns in sample, after expm1: any
\* value above -1.  The model draws it from PredValues, one value for the
\* first half of the rows and one for the rest.
PredValues == {0 - 500000, 0 - 1, 0, 10000000, 11000000}

InSample(n, p1, p2) == [i \in 1..n |-> IF i <= n \div 2 THEN p1 ELSE p2]

\* lines 100-141 of train_product_model, on the frame without its outliers:
\* the second guard, the fit and the calibration.  fitOk is whether
\* Prophet's fit and predict return.
Calibrate(df, fitOk, p1, p2) ==
    IF TooFew(df)
    THEN [status |-> "skipped", reason |-> "Not enough data after outlier removal",
          factor |-> 0, accuracy |-> 0, dates |-> <<>>]
    ELSE IF ~fitOk
    THEN [status |-> "error", reason |-> "fit failed",
          factor |-> 0, accuracy |-> 0, dates |-> <<>>]
    ELSE [status |-> "success", reason |-> "",
          factor |-> correction_factor(df, InSample(Len(df), p1, p2)),
          accuracy |-> accuracy_score(Mape(df, InSample(Len(df), p1, p2))),
          dates |-> [i \in 1..Len(df) |-> df[i].ds]]

\* lines 84-141 of train_product_model: everything before the files are
\* written
Prepare(sku, fitOk, p1, p2) ==
    IF TooFew(get_sales_data(sku))
    THEN [status |-> "skipped", reason |-> "Not enough data",
          factor |-> 0, accuracy |-> 0, dates |-> <<>>]
    ELSE Only({Calibrate(df, fitOk, p1, p2) : df \in {RemoveOutliers(get_sales_data(sku))}})

----------------------------------------------------------------------------
(* The catalogue and the ledger: ProductService and TransactionService on  *)
(* the tables products and transactions.  Every call opens a session of    *)
(* its own (DatabaseManager).  A query reads the committed rows;           *)
(* session.commit() flushes the changes of the session and commits them,   *)
(* which is one step for every other session.  The engine reads the        *)
(* ledger through get_sales_data only, as the daily aggregate sales.       *)

Clients == {"c1", "c2"}
SkuPool == {"A", "B", "C"}       \* the SKUs the requests name
MaxProductId == 4
MaxTransactionId == 4

ProductRow(id, sku, stock) == [product_id |-> id, sku |-> sku, stock |-> stock]
SaleRow(id, product, quantity) ==
    [transaction_id |-> id, product_id |-> product, quantity_sold |-> quantity]

NoRow == ProductRow(0, "", 0)

\* The stock each product of the first state had before anything was sold
InitialStock == [id \in {1, 2} |-> IF id = 1 THEN 7 ELSE 3]

\* The request data: the keys it has and their values
SaleData(sku, quantity) ==
    [keys |-> {"product_sku", "quantity"}, product_sku |-> sku,
     quantity |-> quantity, sku |-> "", stock |-> 0]

RequiredFields == {"name", "category", "price", "stock", "sku"}

ProductData(sku, stock) ==
    [keys |-> RequiredFields, product_sku |-> "", quantity |-> 0,
     sku |-> sku, stock |-> stock]

NoData == [keys |-> {}, product_sku |-> "", quantity |-> 0, sku |-> "", stock |-> 0]

Without(data, key) == [data EXCEPT !.keys = @ \ {key}, ![key] = NoData[key]]

NoSession == [pc |-> "idle", call |-> "none", sku |-> "", data |-> NoData,
              row |-> NoRow, outcome |-> "none", reason |-> "",
              transaction_id |-> 0, quantity_sold |-> 0]

\* Two products, one unit sale of product 1 in the ledger
DbInit ==
    /\ productTable = {ProductRow(1, "A", 5), ProductRow(2, "B", 3)}
    /\ transactionTable = {SaleRow(1, 1, 2)}
    /\ sequence = [product |-> 2, transaction |-> 1]
    /\ session = [c \in Clients |-> NoSession]

\* session.query(Product).filter(Product.sku == sku).first()
First(table, sku) ==
    IF \E r \in table : r.sku = sku
    THEN CHOOSE r \in table : r.sku = sku
    ELSE NoRow

\* The call of client c returns, or raises, and its session is closed
Returns(c, s, outcome, reason) ==
    session' = [session EXCEPT ![c] =
                   [s EXCEPT !.pc = "idle", !.outcome = outcome, !.reason = reason]]

GoesOn(c, s, stage) == session' = [session EXCEPT ![c] = [s EXCEPT !.pc = stage]]

(* TransactionService.create_transaction *)

\* lines 40-43: the two keys the data must have
CreateTransaction(c, data) ==
    /\ session[c].pc = "idle"
    /\ sequence.transaction < MaxTransactionId
    /\ LET s == [NoSession EXCEPT !.call = "create_transaction", !.data = data]
       IN  IF "product_sku" \notin data.keys
           THEN Returns(c, s, "ValueError", "Product SKU is required")
           ELSE IF "quantity" \notin data.keys
           THEN Returns(c, s, "ValueError", "Quantity is required")
           ELSE GoesOn(c, s, "sale_query")
    /\ UNCHANGED <<productTable, transactionTable, sequence, engineVars>>

\* a stock check that lets every quantity through
NeverInsufficient(stock, quantity) == FALSE

\* line 52: product.stock < quantity
InsufficientStock(stock, quantity) == stock < quantity

\* lines 45-55: the product row is read, without a lock on it, and the
\* quantity is checked against the stock that was read
QueryForSale(c) ==
    /\ session[c].pc = "sale_query"
    /\ LET s == session[c]
           product == First(productTable, s.data.product_sku)
       IN  IF product = NoRow
           THEN Returns(c, s, "ValueError", "not found")
           ELSE IF InsufficientStock(product.stock, s.data.quantity)
           THEN Returns(c, s, "ValueError", "Insufficient stock")
           ELSE GoesOn(c, [s EXCEPT !.row = product], "sale_commit")
    /\ UNCHANGED <<productTable, transactionTable, sequence, engineVars>>

\* a sale that leaves the stock as it was read
StockKept(stock, quantity) == stock

\* line 65: product.stock -= quantity, on the stock that was read
StockAfterSale(stock, quantity) == stock - quantity

\* lines 57-78: the transaction row is inserted and the stock column of
\* the product row is set to the value computed at line 65, then both are
\* committed.  (No behaviour here deletes a product under an open sale.)
CommitSale(c) ==
    /\ session[c].pc = "sale_commit"
    /\ LET s == session[c]
           id == sequence.transaction + 1
       IN  /\ sequence' = [sequence EXCEPT !.transaction = id]
           /\ transactionTable' = transactionTable
                  \cup {SaleRow(id, s.row.product_id, s.data.quantity)}
           /\ productTable' =
                  {IF r.product_id = s.row.product_id
                   THEN [r EXCEPT !.stock = StockAfterSale(s.row.stock, s.data.quantity)]
                   ELSE r : r \in productTable}
           /\ Returns(c, [s EXCEPT !.transaction_id = id,
                                   !.quantity_sold = s.data.quantity], "ok", "")
    /\ UNCHANGED engineVars

\* The requests for a sale of q units of SKU s, whole or with a key missing
SaleRequests(S, Q) ==
    {SaleData(s, q) : s \in S, q \in Q}
        \cup {Without(SaleData(s, q), k) : s \in S, q \in Q,
                                           k \in {"product_sku", "quantity"}}

SaleSteps(C, S, Q) ==
    \/ \E c \in C, data \in SaleRequests(S, Q) : CreateTransaction(c, data)
    \/ \E c \in C : QueryForSale(c)
    \/ \E c \in C : CommitSale(c)

(* ProductService.create_product, update_product, delete_product *)

\* lines 77-80: the required fields
CreateProduct(c, data) ==
    /\ session[c].pc = "idle"
    /\ sequence.product < MaxProductId
    /\ LET s == [NoSession EXCEPT !.call = "create_product", !.data = data]
       IN  IF ~(RequiredFields \subseteq data.keys)
           THEN Returns(c, s, "ValueError", "Missing required field")
           ELSE GoesOn(c, s, "create_query")
    /\ UNCHANGED <<productTable, transactionTable, sequence, engineVars>>

\* lines 82-85: a product with the SKU is looked for
QueryForCreate(c) ==
    /\ session[c].pc = "create_query"
    /\ LET s == session[c]
       IN  IF First(productTable, s.data.sku) # NoRow
           THEN Returns(c, s, "ValueError", "already exists")
           ELSE GoesOn(c, s, "create_commit")
    /\ UNCHANGED <<productTable, transactionTable, sequence, engineVars>>

\* The unique index on products.sku (models_orm.py): another row has the SKU
UniqueViolation(table, id, sku) ==
    \E r \in table : r.sku = sku /\ r.product_id # id

\* lines 87-114: the row is inserted with the next product_id; an
\* IntegrityError becomes the ValueError of line 111
CommitCreate(c) ==
    /\ session[c].pc = "create_commit"
    /\ LET s == session[c]
           id == sequence.product + 1
       IN  /\ sequence' = [sequence EXCEPT !.product = id]
           /\ IF UniqueViolation(productTable, id, s.data.sku)
              THEN /\ Returns(c, s, "ValueError", "already exists")
                   /\ UNCHANGED productTable
              ELSE /\ productTable' = productTable
                          \cup {ProductRow(id, s.data.sku, s.data.stock)}
                   /\ Returns(c, [s EXCEPT !.row =
                                      ProductRow(id, s.data.sku, s.data.stock)],
                              "ok", "")
    /\ UNCHANGED <<transactionTable, engineVars>>

\* lines 119-122: the required fields
UpdateProduct(c, sku, data) ==
    /\ session[c].pc = "idle"
    /\ LET s == [NoSession EXCEPT !.call = "update_product", !.sku = sku,
                                  !.data = data]
       IN  IF ~(RequiredFields \subseteq data.keys)
           THEN Returns(c, s, "ValueError", "Missing required field")
           ELSE GoesOn(c, s, "update_find")
    /\ UNCHANGED <<productTable, transactionTable, sequence, engineVars>>

\* lines 124-129: the product is read; a new SKU is checked next
FindForUpdate(c) ==
    /\ session[c].pc = "update_find"
    /\ LET s == session[c]
           product == First(productTable, s.sku)
       IN  IF product = NoRow
           THEN Returns(c, s, "ValueError", "not found")
           ELSE GoesOn(c, [s EXCEPT !.row = product],
                       IF s.data.sku # s.sku THEN "update_check" ELSE "update_commit")
    /\ UNCHANGED <<productTable, transactionTable, sequence, engineVars>>

\* lines 130-132: a product with the new SKU is looked for
CheckRename(c) ==
    /\ session[c].pc = "update_check"
    /\ LET s == session[c]
       IN  IF First(productTable, s.data.sku) # NoRow
           THEN Returns(c, s, "ValueError", "already exists")
           ELSE GoesOn(c, s, "update_commit")
    /\ UNCHANGED <<productTable, transactionTable, sequence, engineVars>>

\* lines 134-158: the columns that differ from the row that was read are
\* updated; an IntegrityError becomes the ValueError of line 155
CommitUpdate(c) ==
    /\ session[c].pc = "update_commit"
    /\ LET s == session[c]
           new == [s.row EXCEPT !.sku = s.data.sku, !.stock = s.data.stock]
       IN  IF new # s.row /\ UniqueViolation(productTable, s.row.product_id, new.sku)
           THEN /\ Returns(c, s, "ValueError", "already exists")
                /\ UNCHANGED productTable
           ELSE /\ productTable' =
                       {IF r.product_id = s.row.product_id THEN new ELSE r :
                            r \in productTable}
                /\ Returns(c, [s EXCEPT !.row = new], "ok", "")
    /\ UNCHANGED <<transactionTable, sequence, engineVars>>

\* line 161: delete_product(sku)
DeleteProduct(c, sku) ==
    /\ session[c].pc = "idle"
    /\ GoesOn(c, [NoSession EXCEPT !.call = "delete_product", !.sku = sku],
              "delete_find")
    /\ UNCHANGED <<productTable, transactionTable, sequence, engineVars>>

\* lines 163-166: the product is read
FindForDelete(c) ==
    /\ session[c].pc = "delete_find"
    /\ LET s == session[c]
           product == First(productTable, s.sku)
       IN  IF product = NoRow
           THEN Returns(c, s, "ValueError", "not found")
           ELSE GoesOn(c, [s EXCEPT !.row = product], "delete_commit")
    /\ UNCHANGED <<productTable, transactionTable, sequence, engineVars>>

\* a delete that removes no row
DeleteNothing(table, id) == table

\* DELETE FROM products WHERE product_id = id
DeleteRow(table, id) == {r \in table : r.product_id # id}

\* lines 168-174: session.delete(product) deletes the transactions of the
\* product first (cascade="all, delete-orphan"), then the product row
CommitDelete(c) ==
    /\ session[c].pc = "delete_commit"
    /\ LET s == session[c]
       IN  /\ transactionTable' =
                  {t \in transactionTable : t.product_id # s.row.product_id}
           /\ productTable' = DeleteRow(productTable, s.row.product_id)
           /\ Returns(c, s, "ok", "")
    /\ UNCHANGED <<sequence, engineVars>>

\* The requests for a product with SKU s and stock k, whole or without
\* the key sku
ProductRequests(S, K) ==
    {ProductData(s, k) : s \in S, k \in K}
        \cup {Without(ProductData(s, k), "sku") : s \in S, k \in K}

CatalogSteps(C, S, K) ==
    \/ \E c \in C, data \in ProductRequests(S, K) : CreateProduct(c, data)
    \/ \E c \in C : QueryForCreate(c)
    \/ \E c \in C : CommitCreate(c)
    \/ \E c \in C, s \in S, data \in ProductRequests(S, K) : UpdateProduct(c, s, data)
    \/ \E c \in C : FindForUpdate(c)
    \/ \E c \in C : CheckRename(c)
    \/ \E c \in C : CommitUpdate(c)
    \/ \E c \in C, s \in S : DeleteProduct(c, s)
    \/ \E c \in C : FindForDelete(c)
    \/ \E c \in C : CommitDelete(c)

----------------------------------------------------------------------------
(* The artifact files.  A file is Absent or has content written by one     *)
(* training run.  open(path, "w") truncates the file at once; the content  *)
(* is complete when the with-block closes the file.                        *)

Absent == [run |-> 0, stage |-> "absent", factor |-> 0, accuracy |-> 0,
           dates |-> <<>>, curve |-> <<>>]

\* the model file keeps the dates it was fitted on (Prophet's history_dates)
\* and the fitted parameters, which fix the point forecast yhat of every
\* date: curve is <<yhat on the dates of the history, yhat on the first day
\* after them, yhat on the later days>>, after expm1; the metadata file
\* keeps the correction factor and the accuracy score
ModelContent(run, stage, dates, curve) ==
    [run |-> run, stage |-> stage, factor |-> 0, accuracy |-> 0, dates |-> dates,
     curve |-> curve]

MetaContent(run, stage, cf, acc) ==
    [run |-> run, stage |-> stage, factor |-> cf, accuracy |-> acc, dates |-> <<>>,
     curve |-> <<>>]

Exists(file) == file.stage # "absent"          \* os.path.exists
Readable(file) == file.stage = "complete"      \* the JSON parses

\* What closing the file leaves when run wrote its content from offset 0:
\* its own content, unless longer content of another run lay underneath,
\* of which a tail may remain
StagesAfterClose(file, run) ==
    IF file.stage = "complete" /\ file.run # run
    THEN {"complete", "garbled"}
    ELSE {"complete"}

DefaultFactor == 100
DefaultAccuracy == 0

\* LoadMeta that takes the fields of a file that does not parse
LoadMetaUnguarded(file) ==
    IF ~Exists(file)
    THEN [seen |-> "missing", run |-> 0, cf |-> DefaultFactor, acc |-> DefaultAccuracy]
    ELSE [seen |-> IF Readable(file) THEN "read" ELSE "unreadable",
          run |-> file.run, cf |-> file.factor, acc |-> file.accuracy]

\* lines 186-196: the defaults, replaced by what json.load returns; an
\* exception while reading leaves the defaults
LoadMeta(file) ==
    IF ~Exists(file)
    THEN [seen |-> "missing", run |-> 0, cf |-> DefaultFactor, acc |-> DefaultAccuracy]
    ELSE IF ~Readable(file)
    THEN [seen |-> "unreadable", run |-> 0, cf |-> DefaultFactor, acc |-> DefaultAccuracy]
    ELSE [seen |-> "read", run |-> file.run, cf |-> file.factor, acc |-> file.accuracy]

\* PredictionService._get_model_accuracy: 0.0, or the accuracy_score of
\* the metadata file when it exists and parses
get_model_accuracy(file) ==
    IF Exists(file) /\ Readable(file) THEN file.accuracy ELSE DefaultAccuracy

NoOp == [call |-> "none", sku |-> "X", days |-> 0, caller |-> "none", run |-> 0,
         factor |-> 0, accuracy |-> 0, dates |-> <<>>, curve |-> <<>>,
         stock |-> 0, seenModel |-> 0, seenMeta |-> "none",
         cf |-> DefaultFactor, acc |-> DefaultAccuracy, points |-> <<>>,
         future |-> <<>>]

NoResult == [call |-> "none", sku |-> "X", status |-> "none", reason |-> "",
             trained |-> "none", factor |-> 0, accuracy |-> 0,
             engineAccuracy |-> 0,
             seenModel |-> 0, seenMeta |-> "none", metaRun |-> 0,
             points |-> <<>>, days |-> 0, chartData |-> <<>>,
             recommendation |-> <<>>, future |-> <<>>,
             totalPredicted |-> 0, historyEnd |-> 0]

InitWith(tables) ==
    /\ sales \in tables
    /\ modelFile = [s \in Skus |-> Absent]
    /\ metaFile = [s \in Skus |-> Absent]
    /\ nextRun = 0
    /\ pc = [w \in Workers |-> "idle"]
    /\ op = [w \in Workers |-> NoOp]
    /\ result = [w \in Workers |-> NoResult]
    /\ started = 0
    /\ tasks = <<>>
    /\ DbInit

Init == InitWith(SalesTables)

\* A sales table with an outlier day for "A" and no spread at all for "B"
OutlierTables ==
    {[s \in Skus |-> CASE s = "A" -> H61 [] s = "B" -> H5Flat [] OTHER -> <<>>]}

----------------------------------------------------------------------------
(* MLEngine.train_product_model, statement by statement *)

\* The call returns to whoever made it: a caller of train_product_model
\* gets the status, predict goes on at line 178
TrainReturns(w, r) ==
    IF op[w].caller = "predict" /\ r.status = "success"
    THEN /\ pc' = [pc EXCEPT ![w] = "read_model"]
         /\ UNCHANGED <<op, result>>
    ELSE /\ pc' = [pc EXCEPT ![w] = "idle"]
         /\ op' = [op EXCEPT ![w] = NoOp]
         /\ result' = [result EXCEPT ![w] =
                IF op[w].caller = "predict"
                THEN \* line 179: raise Exception("Insufficient data to train ...")
                     [NoResult EXCEPT !.call = "predict", !.sku = op[w].sku,
                                      !.status = "error",
                                      !.reason = "Insufficient data",
                                      !.trained = r.status]
                ELSE [NoResult EXCEPT !.call = "train", !.sku = op[w].sku,
                                      !.status = r.status, !.reason = r.reason,
                                      !.trained = r.status,
                                      !.factor = r.factor,
                                      !.accuracy = r.accuracy]]

\* lines 84-141: read the sales, guard, remove outliers, fit, calibrate;
\* curve is the point forecast of the model the fit produced
Fit(w, fitOk, p1, p2, curve) ==
    /\ pc[w] = "fit"
    /\ LET r == Prepare(op[w].sku, fitOk, p1, p2)
       IN  IF r.status = "success"
           THEN /\ nextRun' = nextRun + 1
                /\ op' = [op EXCEPT ![w].run = nextRun + 1,
                                    ![w].factor = r.factor,
                                    ![w].accuracy = r.accuracy,
                                    ![w].dates = r.dates,
                                    ![w].curve = curve]
                /\ pc' = [pc EXCEPT ![w] = "open_model"]
                /\ UNCHANGED result
           ELSE /\ TrainReturns(w, r)
                /\ UNCHANGED nextRun
    /\ UNCHANGED <<dbVars, sales, modelFile, metaFile, started, tasks>>

\* line 144: open(model path, "w")
OpenModel(w) ==
    /\ pc[w] = "open_model"
    /\ modelFile' = [modelFile EXCEPT ![op[w].sku] =
                        ModelContent(op[w].run, "truncated", <<>>, <<>>)]
    /\ pc' = [pc EXCEPT ![w] = "write_model"]
    /\ UNCHANGED <<dbVars, sales, metaFile, nextRun, op, result, started, tasks>>

\* line 145 and the end of the with-block: the model is written and closed
WriteModel(w) ==
    /\ pc[w] = "write_model"
    /\ \E st \in StagesAfterClose(modelFile[op[w].sku], op[w].run) :
          modelFile' = [modelFile EXCEPT ![op[w].sku] =
                            ModelContent(op[w].run, st, op[w].dates, op[w].curve)]
    /\ pc' = [pc EXCEPT ![w] = "open_meta"]
    /\ UNCHANGED <<dbVars, sales, metaFile, nextRun, op, result, started, tasks>>

\* line 148: open(meta path, "w")
OpenMeta(w) ==
    /\ pc[w] = "open_meta"
    /\ metaFile' = [metaFile EXCEPT ![op[w].sku] =
                       MetaContent(op[w].run, "truncated", 0, 0)]
    /\ pc' = [pc EXCEPT ![w] = "write_meta"]
    /\ UNCHANGED <<dbVars, sales, modelFile, nextRun, op, result, started, tasks>>

\* lines 149-162: json.dump of the metadata, close, return success
WriteMeta(w) ==
    /\ pc[w] = "write_meta"
    /\ \E st \in StagesAfterClose(metaFile[op[w].sku], op[w].run) :
          metaFile' = [metaFile EXCEPT ![op[w].sku] =
                          MetaContent(op[w].run, st, op[w].factor, op[w].accuracy)]
    /\ TrainReturns(w, [status |-> "success", reason |-> "",
                        factor |-> op[w].factor, accuracy |-> op[w].accuracy,
                        dates |-> op[w].dates])
    /\ UNCHANGED <<dbVars, sales, modelFile, nextRun, started, tasks>>

\* What the except clause of line 164 returns when a statement of lines
\* 144-154 raises
WriteError ==
    [status |-> "error", reason |-> "write failed",
     factor |-> 0, accuracy |-> 0, dates |-> <<>>]

\* line 145 raises (model_to_json, or the write or the close of the file):
\* the file that line 144 truncated stays without a model in it
WriteModelFails(w) ==
    /\ pc[w] = "write_model"
    /\ TrainReturns(w, WriteError)
    /\ UNCHANGED <<dbVars, sales, modelFile, metaFile, nextRun, started, tasks>>

\* line 148 raises: the new model is on disk, the metadata file is the
\* one that was there
OpenMetaFails(w) ==
    /\ pc[w] = "open_meta"
    /\ TrainReturns(w, WriteError)
    /\ UNCHANGED <<dbVars, sales, modelFile, metaFile, nextRun, started, tasks>>

\* json.dump of lines 149-154 raises: the metadata file that line 148
\* truncated stays without a record in it
WriteMetaFails(w) ==
    /\ pc[w] = "write_meta"
    /\ TrainReturns(w, WriteError)
    /\ UNCHANGED <<dbVars, sales, modelFile, metaFile, nextRun, started, tasks>>

\* train_product_model(sku) is called
Train(w, sku) ==
    /\ pc[w] = "idle"
    /\ started < MaxOps
    /\ started' = started + 1
    /\ pc' = [pc EXCEPT ![w] = "fit"]
    /\ op' = [op EXCEPT ![w] = [NoOp EXCEPT !.call = "train", !.sku = sku,
                                            !.caller = "train"]]
    /\ result' = [result EXCEPT ![w] = NoResult]
    /\ UNCHANGED <<dbVars, sales, modelFile, metaFile, nextRun, tasks>>

----------------------------------------------------------------------------
(* MLEngine.predict, statement by statement *)

MaxDays == 2
Days == 1..MaxDays

\* What the collaborator's predict returns for a date after expm1:
\* <<yhat, yhat_lower, yhat_upper>>, each any value above -1.  yhat is
\* what the parameters of the model give for the date; the two bounds are
\* quantiles of samples predict draws anew on every call.  The model draws
\* one triple for the dates of the history and one for the future.
RawTriples == {<<0 - 900000, 0 - 990000, 0 - 500000>>,
               <<3000000, 0 - 400000, 8000000>>,
               <<12000000, 9000000, 15000000>>}

\* clip that leaves the value as it is
ClipLowerOff(v) == v

\* Series.clip(lower=0)
ClipLower(v) == IF v < 0 THEN 0 ELSE v

\* lines 213-220: times the correction factor, then clipped at 0
Corrected(raw, cf) == ClipLower((raw * cf) \div 100)

\* make_future_dataframe(periods=days): the dates the model was fitted on
\* and the days after the last of them
FutureDates(dates, days) ==
    dates \o [i \in 1..days |-> dates[Len(dates)] + i]

\* a promo flag that is 1 where nothing is recorded
PromoMissingIsOne(df, ds) ==
    IF \E i \in 1..Len(df) : df[i].ds = ds
    THEN df[CHOOSE i \in 1..Len(df) : df[i].ds = ds].promo
    ELSE 1

\* lines 203-204: future['ds'].map(promo_map).fillna(0)
PromoOn(df, ds) ==
    IF \E i \in 1..Len(df) : df[i].ds = ds
    THEN df[CHOOSE i \in 1..Len(df) : df[i].ds = ds].promo
    ELSE 0

\* lines 199-206: the frame handed to the collaborator's predict: the
\* dates of the model and of the horizon, each with its promo flag
FutureFrame(dates, days, df) ==
    LET ds == FutureDates(dates, days)
    IN  [i \in 1..Len(ds) |-> [ds |-> ds[i], promo |-> PromoOn(df, ds[i])]]

\* The triple t moved to the point forecast y, above -1
Shifted(t, y) ==
    <<y, IntMax(y - (t[1] - t[2]), 0 - 999999), y + (t[3] - t[1])>>

\* lines 199-225: the forecast frame; rest is yhat on the days after the
\* first day of the future
ForecastFrame(dates, days, cf, hist, fut, rest) ==
    LET ds == FutureDates(dates, days)
    IN  [i \in 1..Len(ds) |->
            LET raw == IF i <= Len(dates) THEN hist
                       ELSE IF i = Len(dates) + 1 THEN fut
                       ELSE Shifted(fut, rest)
            IN  [ds |-> ds[i],
                 yhat_corrected |-> Corrected(raw[1], cf),
                 yhat_lower_corrected |-> Corrected(raw[2], cf),
                 yhat_upper_corrected |-> Corrected(raw[3], cf)]]

\* PredictionService.predict_stock is called (lines 24-37): an unknown SKU
\* is refused, else MLEngine.predict starts; its line 176 trains first when
\* no model file exists.  stock is the stock of the product row that line
\* 32 reads.
Predict(w, sku, days, stock) ==
    /\ pc[w] = "idle"
    /\ started < MaxOps
    /\ started' = started + 1
    /\ IF sku \notin Products
       THEN /\ result' = [result EXCEPT ![w] =
                   [NoResult EXCEPT !.call = "predict", !.sku = sku,
                                    !.status = "error", !.reason = "not found"]]
            /\ UNCHANGED <<pc, op>>
       ELSE /\ pc' = [pc EXCEPT ![w] =
                   IF Exists(modelFile[sku]) THEN "read_model" ELSE "fit"]
            /\ op' = [op EXCEPT ![w] =
                   [NoOp EXCEPT !.call = "predict", !.sku = sku, !.days = days,
                                !.caller = "predict", !.stock = stock]]
            /\ result' = [result EXCEPT ![w] = NoResult]
    /\ UNCHANGED <<dbVars, sales, modelFile, metaFile, nextRun, tasks>>

\* lines 182-183: model_from_json(f.read()) raises on anything but a
\* complete model
ReadModel(w) ==
    /\ pc[w] = "read_model"
    /\ LET file == modelFile[op[w].sku]
       IN  IF Readable(file)
           THEN /\ op' = [op EXCEPT ![w].seenModel = file.run,
                                    ![w].dates = file.dates,
                                    ![w].curve = file.curve]
                /\ pc' = [pc EXCEPT ![w] = "meta_exists"]
                /\ UNCHANGED result
           ELSE /\ result' = [result EXCEPT ![w] =
                       [NoResult EXCEPT !.call = "predict", !.sku = op[w].sku,
                                        !.status = "error",
                                        !.reason = "model unreadable",
                                        !.trained = "none"]]
                /\ op' = [op EXCEPT ![w] = NoOp]
                /\ pc' = [pc EXCEPT ![w] = "idle"]
    /\ UNCHANGED <<dbVars, sales, modelFile, metaFile, nextRun, started, tasks>>

\* lines 186-189: the defaults stay when no metadata file exists
MetaExists(w) ==
    /\ pc[w] = "meta_exists"
    /\ IF Exists(metaFile[op[w].sku])
       THEN /\ pc' = [pc EXCEPT ![w] = "read_meta"]
            /\ UNCHANGED op
       ELSE /\ pc' = [pc EXCEPT ![w] = "forecast"]
            /\ LET m == LoadMeta(metaFile[op[w].sku])
               IN  op' = [op EXCEPT ![w].seenMeta = m.seen, ![w].cf = m.cf,
                                    ![w].acc = m.acc]
    /\ UNCHANGED <<dbVars, sales, modelFile, metaFile, nextRun, result, started, tasks>>

\* lines 190-196: json.load; an exception leaves the defaults
ReadMeta(w) ==
    /\ pc[w] = "read_meta"
    /\ LET m == LoadMeta(metaFile[op[w].sku])
       IN  op' = [op EXCEPT ![w].seenMeta = m.seen, ![w].run = m.run,
                            ![w].cf = m.cf, ![w].acc = m.acc]
    /\ pc' = [pc EXCEPT ![w] = "forecast"]
    /\ UNCHANGED <<dbVars, sales, modelFile, metaFile, nextRun, result, started, tasks>>

\* lines 199-225: the collaborator predicts with the model that was read,
\* the output is corrected and clipped, the frame goes back to
\* predict_stock
Forecast(w, hist, fut) ==
    /\ pc[w] = "forecast"
    /\ hist[1] = op[w].curve[1]
    /\ fut[1] = op[w].curve[2]
    /\ op' = [op EXCEPT ![w].points =
                 ForecastFrame(op[w].dates, op[w].days, op[w].cf, hist, fut,
                               op[w].curve[3]),
                          ![w].future =
                 FutureFrame(op[w].dates, op[w].days, get_sales_data(op[w].sku))]
    /\ pc' = [pc EXCEPT ![w] = "get_accuracy"]
    /\ UNCHANGED <<dbVars, sales, modelFile, metaFile, nextRun, result, started, tasks>>

\* predict_stock, lines 42-75: the rows of the frame from the first day of
\* sales on, each with the quantity sold on its date, if any (NoActual is
\* Python's None)
NoActual == 0 - 1

ActualOn(df, ds) ==
    IF \E i \in 1..Len(df) : df[i].ds = ds
    THEN df[CHOOSE i \in 1..Len(df) : df[i].ds = ds].y
    ELSE NoActual

ChartData(points, df) ==
    [i \in 1..Len(points) |->
        [date |-> points[i].ds,
         actual |-> ActualOn(df, points[i].ds),
         predicted |-> points[i].yhat_corrected,
         lower |-> points[i].yhat_lower_corrected,
         upper |-> points[i].yhat_upper_corrected]]

\* a total over every row of the frame, the in-sample ones included
TotalOverFrame(points, days) ==
    SumSeq([i \in 1..Len(points) |-> points[i].yhat_corrected])

\* lines 81-82: forecast.tail(forecast_days)['yhat_corrected'].sum()
TotalPredicted(points, days) ==
    SumSeq([i \in 1..days |-> points[Len(points) - days + i].yhat_corrected])

ShortWindow == 7
BufferShort == 120
BufferLong == 110

\* buffer_percent that is 1.2 for every window
BufferAlwaysShort(days) == BufferShort

\* line 85: 1.2 if forecast_days <= 7 else 1.1, in hundredths
buffer_percent(days) == IF days <= ShortWindow THEN BufferShort ELSE BufferLong

\* Python's round of n / d, n >= 0: to the nearest integer, a tie to the
\* even one
RoundHalfEven(n, d) ==
    LET q == n \div d
        r == n % d
    IN  IF 2 * r < d THEN q
        ELSE IF 2 * r > d THEN q + 1
        ELSE IF q % 2 = 0 THEN q ELSE q + 1

\* line 86: int(round(total_predicted_sales * buffer_percent)); total is in
\* millionths, the product is taken unit part and fraction apart to stay
\* within 32 bits
optimal_stock(total, buffer) ==
    LET units == (total \div 1000000) * buffer         \* hundredths
        frac == (total % 1000000) * buffer            \* hundred-millionths
    IN  (units \div 100)
        + RoundHalfEven(((units % 100) * 1000000) + frac, 100000000)

\* lines 89-107: the recommendation
Recommendation(points, days, stock) ==
    LET optimal == optimal_stock(TotalPredicted(points, days), buffer_percent(days))
        gap == optimal - stock
    IN  IF gap > 0
        THEN [current |-> stock, optimal |-> optimal,
              suggestion |-> "Restock", amount |-> gap,
              urgency |-> IF gap > stock THEN "high" ELSE "medium",
              trend |-> "up"]
        ELSE [current |-> stock, optimal |-> optimal,
              suggestion |-> "Stok Aman", amount |-> 0,
              urgency |-> "low",
              trend |-> "down"]

\* predict_stock, lines 42-116: the chart and the recommendation are
\* built, the accuracy is read from the metadata file once more and the
\* response is returned
GetAccuracy(w) ==
    /\ pc[w] = "get_accuracy"
    /\ result' = [result EXCEPT ![w] =
           [NoResult EXCEPT !.call = "predict", !.sku = op[w].sku,
                            !.status = "success",
                            !.days = op[w].days,
                            !.future = op[w].future,
                            !.totalPredicted =
                                TotalPredicted(op[w].points, op[w].days),
                            !.historyEnd = op[w].dates[Len(op[w].dates)],
                            !.chartData =
                                ChartData(op[w].points, get_sales_data(op[w].sku)),
                            !.recommendation =
                                Recommendation(op[w].points, op[w].days, op[w].stock),
                            !.factor = op[w].cf, !.engineAccuracy = op[w].acc,
                            !.accuracy = get_model_accuracy(metaFile[op[w].sku]),
                            !.seenModel = op[w].seenModel,
                            !.seenMeta = op[w].seenMeta,
                            !.metaRun = op[w].run,
                            !.points = op[w].points]]
    /\ op' = [op EXCEPT ![w] = NoOp]
    /\ pc' = [pc EXCEPT ![w] = "idle"]
    /\ UNCHANGED <<dbVars, sales, modelFile, metaFile, nextRun, started, tasks>>

----------------------------------------------------------------------------
(* The engine under concurrent callers: web requests and workers share the *)
(* files and no lock orders them                                           *)

\* The steps of the callers in W, on the SKUs in S, with horizons in D and
\* product stocks in K, the collaborator's in-sample values in P, the point
\* forecasts of its models in C and its forecast triples in R
EngineNext(W, S, D, K, P, C, R) ==
    \/ \E w \in W, s \in S : Train(w, s)
    \/ \E w \in W, s \in S, d \in D, k \in K : Predict(w, s, d, k)
    \/ \E w \in W, fitOk \in BOOLEAN, p1 \in P, p2 \in P, c \in C :
          Fit(w, fitOk, p1, p2, c)
    \/ \E w \in W : OpenModel(w)
    \/ \E w \in W : WriteModel(w)
    \/ \E w \in W : OpenMeta(w)
    \/ \E w \in W : WriteMeta(w)
    \/ \E w \in W : WriteModelFails(w)
    \/ \E w \in W : OpenMetaFails(w)
    \/ \E w \in W : WriteMetaFails(w)
    \/ \E w \in W : ReadModel(w)
    \/ \E w \in W : MetaExists(w)
    \/ \E w \in W : ReadMeta(w)
    \/ \E w \in W, hist \in R, fut \in R : Forecast(w, hist, fut)
    \/ \E w \in W : GetAccuracy(w)

\* Two concurrent callers; the collaborator returns one of two values
Next ==
    EngineNext(Workers, Skus, {1}, {0}, {0, 10000000},
               {<<3000000, 3000000, 3000000>>},
               {<<3000000, 0 - 400000, 8000000>>})

Spec == Init /\ [][Next]_vars

\* One caller at a time, the collaborator's values drawn from all of
\* PredValues and RawTriples
CalibNext ==
    EngineNext({"w1"}, Skus, Days, {0}, PredValues,
               {<<h[1], f[1], f[1]>> : h \in RawTriples, f \in RawTriples},
               RawTriples)

CalibSpec == Init /\ [][CalibNext]_vars

\* Horizons on both sides of the 7-day window, and stocks below, between
\* and above the optimal stocks they lead to
Horizons == {ShortWindow, ShortWindow + 1}
Stocks == {0, 14, 20, 100}
RecoTriples == {<<3000000, 1000000, 5000000>>, <<4000000, 2000000, 6000000>>}
RecoCurves == {<<3000000, f, r>> : f \in {3000000, 4000000},
                                   r \in {2000000, 3000000, 4000000}}

\* One caller of predict_stock for one product, with rising, flat and
\* falling forecasts
RecoNext ==
    EngineNext({"w1"}, {"A"}, Horizons, Stocks, {10000000}, RecoCurves, RecoTriples)

RecoSpec == Init /\ [][RecoNext]_vars

\* One caller on the sales table with the outlier day
OutlierNext ==
    EngineNext({"w1"}, Skus, {1}, {0}, {0, 10000000},
               {<<3000000, 3000000, 3000000>>},
               {<<3000000, 0 - 400000, 8000000>>})

OutlierSpec == InitWith(OutlierTables) /\ [][OutlierNext]_vars

\* One caller of the synchronous route, with horizons inside and on both
\* sides of 1..365
HorizonNext ==
    EngineNext({"w1"}, {"A"}, {0, 1, 366}, {0, 14}, {10000000},
               {<<3000000, 3000000, 3000000>>},
               {<<3000000, 0 - 400000, 8000000>>})

HorizonSpec == Init /\ [][HorizonNext]_vars

\* Two callers for one product; for the same yhat the collaborator's
\* sampled bounds come out as one of two pairs
RepeatNext ==
    EngineNext(Workers, {"A"}, {MaxDays}, {0}, {10000000},
               {<<3000000, 3000000, 3000000>>},
               {<<3000000, 0 - 400000, 8000000>>, <<3000000, 1000000, 5000000>>})

RepeatSpec == Init /\ [][RepeatNext]_vars

----------------------------------------------------------------------------
(* The Celery tasks of tasks/ml_tasks.py.  A worker runs the body of a     *)
(* task from its first line to its return or raise.                        *)

MaxTasks == 2
MaxRetries == 3
MaxCountdown == 600

Returned(value, model, meta) ==
    [kind |-> "return", value |-> value, error |-> "", cause |-> "none",
     model |-> model, meta |-> meta]

Raised(error, cause, model, meta) ==
    [kind |-> "raise", value |-> "none", error |-> error, cause |-> cause,
     model |-> model, meta |-> meta]

TaskCurve == <<10000000, 10000000, 10000000>>

\* Why a SKU cannot be trained on: no such product, or too little history
NoDataCause(sku) == IF sku \in Products THEN "InsufficientData" ELSE "ProductNotFound"

\* The body of train_product_model_task up to its except clause (lines
\* 85-184): what it returns or raises, and the two files afterwards
\* (TaskCurve is the point forecast of the models the tasks fit)
TrainTaskOutcome(sku, r) ==
    CASE r.status = "skipped" -> Returned("skipped", modelFile[sku], metaFile[sku])
      [] r.status = "error" ->
             Raised("fit failed", "transient", modelFile[sku], metaFile[sku])
      [] OTHER ->
             Returned("success",
                      ModelContent(nextRun + 1, "complete", r.dates, TaskCurve),
                      MetaContent(nextRun + 1, "complete", r.factor, r.accuracy))

TrainTaskBody(sku, fitOk, p1, p2) ==
    Only({TrainTaskOutcome(sku, r) : r \in {Prepare(sku, fitOk, p1, p2)}})

\* The body of predict_stock_task up to its except clause (lines 204-303).
\* Line 213 calls train_product_model_task directly: what that call raises
\* leaves its self.retry unchanged and arrives here.
PredictTaskOutcome(sku, trained) ==
    IF trained.kind = "raise" THEN trained
    ELSE IF trained.value # "success"
    THEN \* line 215: raise Exception("Failed to train model: ...")
         Raised("Failed to train model", NoDataCause(sku),
                trained.model, trained.meta)
    ELSE IF ~Readable(trained.model)
    THEN Raised("model unreadable", "corrupt", trained.model, trained.meta)
    ELSE Returned("success", trained.model, trained.meta)

PredictTaskBody(sku, days, fitOk, p1, p2, hist, fut) ==
    Only({PredictTaskOutcome(sku, trained) :
          trained \in {IF Exists(modelFile[sku])
                       THEN Returned("success", modelFile[sku], metaFile[sku])
                       ELSE TrainTaskBody(sku, fitOk, p1, p2)}})

\* min(2 ** self.request.retries, 600)
Countdown(retries) == IntMin(2 ^ retries, MaxCountdown)

\* self.retry that never gives up
RetryAlways(task, error, cause) ==
    [task EXCEPT !.status = "RETRY", !.error = error, !.cause = cause,
                 !.retries = task.retries + 1,
                 !.countdown = Countdown(task.retries)]

\* self.retry(exc=exc, countdown=...) of a task that a worker runs: Celery
\* sends the task again while request.retries + 1 <= max_retries, and raises
\* exc, which fails the task, after that
RetryOrFail(task, error, cause) ==
    IF task.retries + 1 > MaxRetries
    THEN [task EXCEPT !.status = "FAILURE", !.error = error, !.cause = cause]
    ELSE [task EXCEPT !.status = "RETRY", !.error = error, !.cause = cause,
                      !.retries = task.retries + 1,
                      !.countdown = Countdown(task.retries)]

\* A worker that records nothing when the body raises
FinishedOnlyOnReturn(task, out) ==
    IF out.kind = "return"
    THEN [task EXCEPT !.status = "SUCCESS", !.value = out.value,
                      !.error = "", !.cause = "none",
                      !.executions = task.executions + 1]
    ELSE task

\* What the worker records when the body has run: the return value, or
\* what the except clause (lines 186-189, 305-307) does with an exception
Finished(task, out) ==
    LET ran == [task EXCEPT !.executions = task.executions + 1]
    IN  IF out.kind = "return"
        THEN [ran EXCEPT !.status = "SUCCESS", !.value = out.value,
                         !.error = "", !.cause = "none"]
        ELSE RetryOrFail(ran, out.error, out.cause)

\* cancel is where the revoke request of the task is: not made ("none"),
\* broadcast ("sent") or in the worker's set of revoked ids ("received");
\* cancelledIn is whether the task was executing when the request was made;
\* results is the map train_all_models builds, in the order it is built
NewTask(name, sku, days) ==
    [name |-> name, sku |-> sku, days |-> days, status |-> "PENDING",
     retries |-> 0, executions |-> 0, countdown |-> 0,
     value |-> "none", error |-> "", cause |-> "none",
     cancel |-> "none", cancelledIn |-> "none", results |-> <<>>]

JobInit == Init

\* train_product_async: train_product_model_task.delay(product_sku)
SubmitTrain(sku) ==
    /\ Len(tasks) < MaxTasks
    /\ tasks' = Append(tasks, NewTask("train", sku, 0))
    /\ UNCHANGED <<dbVars, sales, modelFile, metaFile, nextRun, pc, op, result, started>>

MinHorizon == 1
MaxHorizon == 365

\* predict_stock_async: days below 1 or above 365 are answered with 400,
\* else predict_stock_task.delay(product_sku, forecast_days)
SubmitPredict(sku, days) ==
    /\ days >= MinHorizon /\ days <= MaxHorizon
    /\ Len(tasks) < MaxTasks
    /\ tasks' = Append(tasks, NewTask("predict", sku, days))
    /\ UNCHANGED <<dbVars, sales, modelFile, metaFile, nextRun, pc, op, result, started>>

\* A worker that takes a task whatever its status
StartTaskAnyStatus(id) ==
    /\ id \in 1..Len(tasks)
    /\ tasks[id].status # "STARTED"
    /\ tasks' = [tasks EXCEPT ![id].status = "STARTED"]
    /\ UNCHANGED <<dbVars, sales, modelFile, metaFile, nextRun, pc, op, result, started>>

\* A worker takes the task from the queue, the first time or for a retry
\* (CELERY_TASK_TRACK_STARTED); a task whose id is in the worker's set of
\* revoked ids is discarded and marked REVOKED instead
StartTask(id) ==
    /\ id \in 1..Len(tasks)
    /\ tasks[id].status \in {"PENDING", "RETRY"}
    /\ tasks' = [tasks EXCEPT ![id].status =
                    IF tasks[id].cancel = "received" THEN "REVOKED" ELSE "STARTED"]
    /\ UNCHANGED <<dbVars, sales, modelFile, metaFile, nextRun, pc, op, result, started>>

Ran(id, out) ==
    /\ tasks' = [tasks EXCEPT ![id] = Finished(tasks[id], out)]
    /\ modelFile' = [modelFile EXCEPT ![tasks[id].sku] = out.model]
    /\ metaFile' = [metaFile EXCEPT ![tasks[id].sku] = out.meta]
    /\ nextRun' = IF out.model = modelFile[tasks[id].sku] THEN nextRun ELSE nextRun + 1
    /\ UNCHANGED <<dbVars, sales, pc, op, result, started>>

\* train_product_model_task runs
RunTrainTask(id, fitOk, p1, p2) ==
    /\ id \in 1..Len(tasks)
    /\ tasks[id].status = "STARTED"
    /\ tasks[id].name = "train"
    /\ \E out \in {TrainTaskBody(tasks[id].sku, fitOk, p1, p2)} : Ran(id, out)

\* predict_stock_task runs
RunPredictTask(id, fitOk, p1, p2, hist, fut) ==
    /\ id \in 1..Len(tasks)
    /\ tasks[id].status = "STARTED"
    /\ tasks[id].name = "predict"
    /\ \E out \in {PredictTaskBody(tasks[id].sku, tasks[id].days, fitOk,
                                    p1, p2, hist, fut)} : Ran(id, out)

WorkerStep ==
    \/ \E id \in 1..MaxTasks : StartTask(id)
    \/ \E id \in 1..MaxTasks, fitOk \in BOOLEAN : RunTrainTask(id, fitOk, 10000000, 10000000)
    \/ \E id \in 1..MaxTasks, fitOk \in BOOLEAN :
          RunPredictTask(id, fitOk, 10000000, 10000000,
                         <<3000000, 0 - 400000, 8000000>>,
                         <<3000000, 0 - 400000, 8000000>>)

\* The requests for the SKUs in S and the steps of the workers
JobSteps(S) ==
    \/ \E s \in S : SubmitTrain(s)
    \/ \E s \in S : SubmitPredict(s, MaxDays)
    \/ WorkerStep

JobNext == JobSteps(Skus)

\* The worker pool keeps taking tasks from the queue and running them
JobSpec == JobInit /\ [][JobNext]_vars /\ WF_vars(WorkerStep)

----------------------------------------------------------------------------
(* The nightly batch (train_all_models) and cancellation (cancel_task)     *)

\* ProductModel.get_all_products(), in the order the loop takes them
ProductList == <<"A", "B">>

\* train_all_models.delay()
SubmitBatch ==
    /\ Len(tasks) < MaxTasks
    /\ tasks' = Append(tasks, NewTask("batch", "X", 0))
    /\ UNCHANGED <<dbVars, sales, modelFile, metaFile, nextRun, pc, op, result, started>>

\* lines 322-332: the result of the direct call, or an error entry for
\* what it raised
BatchEntry(sku, out) ==
    [sku |-> sku, status |-> IF out.kind = "return" THEN out.value ELSE "error"]

\* a loop that an exception ends
BatchFinishedOnError(results, out) ==
    Len(results) = Len(ProductList) \/ out.kind = "raise"

\* line 321: the loop ends with the last product
BatchFinished(results, out) == Len(results) = Len(ProductList)

\* The task after one turn of the loop; lines 336-341 return the map when
\* the loop has ended
BatchTurn(task, sku, out) ==
    Only({ IF BatchFinished(results, out)
           THEN [task EXCEPT !.results = results, !.status = "SUCCESS",
                             !.value = "completed",
                             !.executions = task.executions + 1]
           ELSE [task EXCEPT !.results = results] :
           results \in {Append(task.results, BatchEntry(sku, out))} })

\* One turn of the loop of train_all_models (lines 321-332):
\* train_product_model_task(product['sku']) called directly
RunBatchStep(id, fitOk, p1, p2) ==
    /\ id \in 1..Len(tasks)
    /\ tasks[id].status = "STARTED"
    /\ tasks[id].name = "batch"
    /\ Len(tasks[id].results) < Len(ProductList)
    /\ \E sku \in {ProductList[Len(tasks[id].results) + 1]} :
          \E out \in {TrainTaskBody(sku, fitOk, p1, p2)} :
             /\ tasks' = [tasks EXCEPT ![id] = BatchTurn(tasks[id], sku, out)]
             /\ modelFile' = [modelFile EXCEPT ![sku] = out.model]
             /\ metaFile' = [metaFile EXCEPT ![sku] = out.meta]
             /\ nextRun' = IF out.model = modelFile[sku] THEN nextRun ELSE nextRun + 1
    /\ UNCHANGED <<dbVars, sales, pc, op, result, started>>

\* A cancel that returns only when the worker has revoked the task
CancelTaskAndWait(id) ==
    /\ id \in 1..Len(tasks)
    /\ tasks[id].cancel = "none"
    /\ tasks' = [tasks EXCEPT ![id].cancel = "received",
                              ![id].cancelledIn =
                                  IF tasks[id].status = "STARTED"
                                  THEN "executing" ELSE "not executing",
                              ![id].status =
                                  IF tasks[id].status \in {"PENDING", "STARTED", "RETRY"}
                                  THEN "REVOKED" ELSE tasks[id].status]
    /\ UNCHANGED <<dbVars, sales, modelFile, metaFile, nextRun, pc, op, result, started>>

\* TaskService.cancel_task: celery_app.control.revoke(task_id,
\* terminate=True) broadcasts the request to the workers and returns
\* "cancelled" without waiting for any of them
CancelTask(id) ==
    /\ id \in 1..Len(tasks)
    /\ tasks[id].cancel = "none"
    /\ tasks' = [tasks EXCEPT ![id].cancel = "sent",
                              ![id].cancelledIn =
                                  IF tasks[id].status = "STARTED"
                                  THEN "executing" ELSE "not executing"]
    /\ UNCHANGED <<dbVars, sales, modelFile, metaFile, nextRun, pc, op, result, started>>

\* The SKU whose training a running task may be in
SkuInWork(task) ==
    IF task.name = "batch" THEN ProductList[Len(task.results) + 1] ELSE task.sku

\* The model file of the SKU after the process of the task was killed:
\* as it was, or truncated when the kill came during the write of lines
\* 159-160
ModelAfterKill(task) ==
    {modelFile[SkuInWork(task)]} \cup
    (IF /\ task.name = "predict" => ~Exists(modelFile[task.sku])
        /\ ~TooFew(get_sales_data(SkuInWork(task)))
     THEN {ModelContent(0, "truncated", <<>>, <<>>)}
     ELSE {})

\* The worker receives the revoke request: the id joins its revoked ids,
\* and with terminate=True the process that executes the task is sent
\* SIGTERM and the task is marked REVOKED
ReceiveRevoke(id) ==
    /\ id \in 1..Len(tasks)
    /\ tasks[id].cancel = "sent"
    /\ IF tasks[id].status = "STARTED"
       THEN /\ tasks' = [tasks EXCEPT ![id].cancel = "received",
                                      ![id].status = "REVOKED"]
            /\ \E m \in ModelAfterKill(tasks[id]) :
                  modelFile' = [modelFile EXCEPT ![SkuInWork(tasks[id])] = m]
       ELSE /\ tasks' = [tasks EXCEPT ![id].cancel = "received"]
            /\ UNCHANGED modelFile
    /\ UNCHANGED <<dbVars, sales, metaFile, nextRun, pc, op, result, started>>

BatchNext ==
    \/ JobSteps({"A"})
    \/ SubmitBatch
    \/ \E id \in 1..MaxTasks, fitOk \in BOOLEAN : RunBatchStep(id, fitOk, 10000000, 10000000)

\* The batch next to the tasks for one SKU
BatchSpec == JobInit /\ [][BatchNext]_vars

CancelNext ==
    \/ JobSteps({"A"})
    \/ \E id \in 1..MaxTasks : CancelTask(id)
    \/ \E id \in 1..MaxTasks : ReceiveRevoke(id)

\* Cancellation next to the tasks for one SKU; nothing is assumed about
\* how fast the workers are
CancelSpec == JobInit /\ [][CancelNext]_vars

----------------------------------------------------------------------------
(* The store under its callers *)

\* Quantities below, at and above the stocks, and a SKU no product has
Quantities == {1, 2, 3, 9}

\* One caller of create_transaction: the calls follow one another
LedgerNext == SaleSteps({"c1"}, {"A", "B", "C"}, Quantities)

LedgerSpec == Init /\ [][LedgerNext]_vars

\* Two web requests in create_transaction at the same time
RaceNext == SaleSteps(Clients, {"A", "C"}, Quantities)

RaceSpec == Init /\ [][RaceNext]_vars

\* One caller of create_product, update_product and delete_product
CatalogNext == CatalogSteps({"c1"}, SkuPool, {5, 9})

CatalogSpec == Init /\ [][CatalogNext]_vars

----------------------------------------------------------------------------
(* Properties *)

Reading(w) == pc[w] \in {"read_model", "read_meta"}

FileRead(w) ==
    IF pc[w] = "read_model" THEN modelFile[op[w].sku] ELSE metaFile[op[w].sku]

\* C1: a reader never observes a partially written artifact: whenever a
\* predict is about to read the model or the metadata file of a SKU, the
\* file holds the complete content of one training run.
C1_ReadsAreWhole == \A w \in Workers : Reading(w) => Readable(FileRead(w))

\* C2: the stored model and metadata of a SKU always come from the same
\* training run, and a successful predict has loaded both from one run.
C2_PairFromOneRun ==
    /\ \A s \in Skus :
          Readable(modelFile[s]) =>
              Readable(metaFile[s]) /\ metaFile[s].run = modelFile[s].run
    /\ \A w \in Workers :
          (result[w].call = "predict" /\ result[w].status = "success") =>
              result[w].seenMeta = "read" /\ result[w].metaRun = result[w].seenModel

InFactorRange(f) == FactorLow <= f /\ f <= FactorHigh

\* C3: a successful training returns and persists a correction factor
\* within [0.85, 1.15], whatever the collaborator predicted in sample.
C3_FactorClamped ==
    /\ \A w \in Workers :
          (result[w].call = "train" /\ result[w].status = "success") =>
              InFactorRange(result[w].factor)
    /\ \A w \in Workers : pc[w] \in {"open_model", "write_model", "open_meta",
                                     "write_meta"} => InFactorRange(op[w].factor)
    /\ \A s \in Skus : Readable(metaFile[s]) => InFactorRange(metaFile[s].factor)

C3_Witness ==
    \E w \in Workers :
        /\ result[w].call = "train"
        /\ result[w].status = "success"
        /\ result[w].factor = FactorLow
        /\ metaFile[result[w].sku].factor = FactorLow

NonNegative(pt) ==
    /\ pt.yhat_corrected >= 0
    /\ pt.yhat_lower_corrected >= 0
    /\ pt.yhat_upper_corrected >= 0

\* C4: every forecast point predict returns has predicted, lower and upper
\* at or above 0, whatever the collaborator returned and whatever factor
\* the metadata held.
C4_ForecastNonNegative ==
    \A w \in Workers :
        /\ \A i \in 1..Len(op[w].points) : NonNegative(op[w].points[i])
        /\ \A i \in 1..Len(result[w].points) : NonNegative(result[w].points[i])

C4_Witness ==
    \E w \in Workers :
        /\ result[w].call = "predict"
        /\ result[w].status = "success"
        /\ \E i \in 1..Len(result[w].points) :
              /\ result[w].points[i].yhat_corrected = 0
              /\ result[w].points[i].yhat_upper_corrected = 0
        /\ \E i \in 1..Len(result[w].points) :
              result[w].points[i].yhat_lower_corrected > 0

InAccuracyRange(a) == 0 <= a /\ a <= 1000

\* C5: the accuracy score is within [0, 100] in what training returns, in
\* the metadata file and in what predict reports, the default included.
C5_AccuracyInRange ==
    /\ \A w \in Workers :
          /\ InAccuracyRange(op[w].accuracy)
          /\ InAccuracyRange(op[w].acc)
          /\ InAccuracyRange(result[w].accuracy)
          /\ InAccuracyRange(result[w].engineAccuracy)
    /\ \A s \in Skus : InAccuracyRange(metaFile[s].accuracy)

C5_Witness ==
    \E w \in Workers :
        /\ result[w].call = "predict"
        /\ result[w].status = "success"
        /\ result[w].seenMeta = "missing"
        /\ result[w].engineAccuracy = DefaultAccuracy
        /\ result[w].accuracy > 0

\* C6: training a SKU with fewer than 5 observations, before or after the
\* outlier removal, returns skipped with a reason and writes neither file.
C6_SkippedWritesNothing ==
    \A s \in Skus :
        Len(sales[s]) < MinObservations \/ Len(RemoveOutliers(sales[s])) < MinObservations =>
            /\ ~Exists(modelFile[s])
            /\ ~Exists(metaFile[s])
            /\ \A w \in Workers :
                  (result[w].call = "train" /\ result[w].sku = s) =>
                      result[w].status = "skipped" /\ result[w].reason # ""

C6_Witness ==
    \E w \in Workers :
        /\ result[w].call = "train"
        /\ result[w].sku = "B"
        /\ Len(sales["B"]) > 0
        /\ result[w].status = "skipped"
        /\ \E s \in Skus : Exists(modelFile[s])

\* C7: a predict that had to train first fails with InsufficientData when
\* the training was skipped, and with ModelUnavailable, not
\* InsufficientData, when the training failed for another reason; it
\* returns no forecast in either case.
C7_TrainingFailureKinds ==
    \A w \in Workers :
        (result[w].call = "predict" /\ result[w].trained \in {"skipped", "error"}) =>
            /\ result[w].status = "error"
            /\ result[w].points = <<>>
            /\ result[w].trained = "skipped" => result[w].reason = "Insufficient data"
            /\ result[w].trained = "error" => result[w].reason = "Model unavailable"

\* C8: with a model file that loads and a metadata file that is missing or
\* does not parse, predict goes on with correction factor 1.0 and accuracy
\* 0.0 and succeeds; no predict fails at the metadata.
C8_MetadataDefaults ==
    \A w \in Workers :
        /\ op[w].seenMeta \in {"missing", "unreadable"} =>
              /\ pc[w] \in {"forecast", "get_accuracy"}
              /\ op[w].cf = DefaultFactor
              /\ op[w].acc = DefaultAccuracy
        /\ result[w].seenMeta \in {"missing", "unreadable"} =>
              /\ result[w].status = "success"
              /\ result[w].factor = DefaultFactor
              /\ result[w].engineAccuracy = DefaultAccuracy
        /\ (result[w].call = "predict" /\ result[w].status = "error") =>
              result[w].reason \in {"not found", "Insufficient data", "model unreadable"}

C8_Witness ==
    \E w \in Workers :
        /\ result[w].call = "predict"
        /\ result[w].status = "success"
        /\ result[w].seenMeta = "unreadable"
        /\ result[w].seenModel > 0
        /\ result[w].factor = DefaultFactor

\* C9: a job whose failure is InsufficientData or ProductNotFound never
\* enters RETRY and is executed exactly once.
C9_NoRetryWithoutData ==
    \A id \in 1..Len(tasks) :
        tasks[id].cause \in {"InsufficientData", "ProductNotFound"} =>
            /\ tasks[id].status # "RETRY"
            /\ tasks[id].retries = 0
            /\ tasks[id].executions = 1

\* AsyncResult(task_id).status: PENDING for an id the backend does not know
TaskStatus(id) == IF id \in 1..Len(tasks) THEN tasks[id].status ELSE "PENDING"

\* C10 as stated: a job is executed at most 3 times in total.
C10_AtMostThreeExecutions ==
    \A id \in 1..Len(tasks) : tasks[id].executions <= 3

\* C10, amended: a job that fails on every execution is executed at most
\* 4 times in total (the first execution and max_retries = 3 retries);
\* after the 4th failure it is in FAILURE with the error of that
\* execution, and it never stays in RETRY forever.
C10_RetriesExhaust ==
    /\ [](\A id \in 1..Len(tasks) :
            /\ tasks[id].executions <= MaxRetries + 1
            /\ tasks[id].retries <= MaxRetries
            /\ tasks[id].status = "FAILURE" =>
                  /\ tasks[id].executions = MaxRetries + 1
                  /\ tasks[id].error # ""
            /\ (tasks[id].executions = MaxRetries + 1 /\ tasks[id].error # "") =>
                  tasks[id].status = "FAILURE")
    /\ \A id \in 1..MaxTasks :
          [](TaskStatus(id) = "RETRY" => <>(TaskStatus(id) \in {"SUCCESS", "FAILURE"}))

C10_Witness ==
    \E id \in 1..Len(tasks) :
        /\ tasks[id].status = "FAILURE"
        /\ tasks[id].executions = MaxRetries + 1
        /\ tasks[id].cause = "transient"
        /\ tasks[id].error = "fit failed"

\* The status changes of the state machine as the specification lists them
ListedTransitions ==
    {<<"PENDING", "STARTED">>, <<"STARTED", "SUCCESS">>, <<"STARTED", "FAILURE">>,
     <<"STARTED", "RETRY">>, <<"RETRY", "STARTED">>,
     <<"PENDING", "REVOKED">>, <<"STARTED", "REVOKED">>}

\* The status of every task changes only along the pairs in allowed
OnlyTransitions(allowed) ==
    \A id \in 1..Len(tasks) :
        tasks'[id].status # tasks[id].status =>
            <<tasks[id].status, tasks'[id].status>> \in allowed

\* C11 as stated: the status of a task changes only along PENDING->STARTED,
\* STARTED->SUCCESS, STARTED->FAILURE, STARTED->RETRY, RETRY->STARTED,
\* PENDING->REVOKED and STARTED->REVOKED.
C11_OnlyListedTransitions == [][OnlyTransitions(ListedTransitions)]_vars

\* C11, amended: the status changes only along the listed transitions and
\* RETRY->REVOKED (a task cancelled while it waits for its retry); REVOKED
\* is entered only after a cancellation; SUCCESS, FAILURE and REVOKED are
\* terminal.
C11_TransitionsWithRetryRevoked ==
    [][/\ OnlyTransitions(ListedTransitions \cup {<<"RETRY", "REVOKED">>})
       /\ \A id \in 1..Len(tasks) :
             /\ tasks'[id].status = "REVOKED" => tasks[id].cancel # "none"
             /\ tasks[id].status \in {"SUCCESS", "FAILURE", "REVOKED"} =>
                   tasks'[id].status = tasks[id].status]_vars

C11_Witness ==
    \E id \in 1..Len(tasks) :
        /\ tasks[id].status = "REVOKED"
        /\ tasks[id].retries > 0
        /\ tasks[id].cancelledIn = "not executing"

BatchSkus(task) == {task.results[i].sku : i \in 1..Len(task.results)}

C14_EveryJobTerminates ==
    /\ [][/\ Len(tasks') \in {Len(tasks), Len(tasks) + 1}
          /\ Len(tasks') > Len(tasks) => tasks'[Len(tasks')].status = "PENDING"
          /\ \A id \in 1..Len(tasks) :
                tasks[id].status \in {"SUCCESS", "FAILURE"} => tasks'[id] = tasks[id]]_vars
    /\ \A id \in 1..MaxTasks :
          [](id <= Len(tasks) => <>(TaskStatus(id) \in {"SUCCESS", "FAILURE"}))

C14_Witness ==
    \E id \in 1..Len(tasks) :
        /\ tasks[id].name = "train"
        /\ tasks[id].status = "SUCCESS"
        /\ tasks[id].value = "success"
        /\ tasks[id].executions = 2
        /\ \E other \in 1..Len(tasks) : tasks[other].status = "PENDING"

\* C15: a task for a SKU that no product has is rejected with
\* ProductNotFound on its first execution: it ends in FAILURE, is never
\* retried, and no training was attempted for it.
C15_UnknownSkuRejected ==
    \A id \in 1..Len(tasks) :
        (tasks[id].sku \notin Products /\ tasks[id].executions > 0) =>
            /\ tasks[id].status = "FAILURE"
            /\ tasks[id].cause = "ProductNotFound"
            /\ tasks[id].value = "none"
            /\ tasks[id].retries = 0

\* The recommendations of the predictions that returned
Recommended(w) == result[w].call = "predict" /\ result[w].status = "success"

Rec(w) == result[w].recommendation

Gap(w) == Rec(w).optimal - Rec(w).current

\* C16: the urgency is low when gap <= 0, high when gap > 0 and
\* gap > currentStock x 0.75, and medium when gap > 0 and
\* gap <= currentStock x 0.75.
C16_UrgencyThreshold ==
    \A w \in Workers :
        Recommended(w) =>
            Rec(w).urgency = IF Gap(w) <= 0 THEN "low"
                             ELSE IF 4 * Gap(w) > 3 * Rec(w).current THEN "high"
                             ELSE "medium"

\* The predicted values of the horizon: the last days points of the chart
HorizonPoint(w, i) ==
    result[w].chartData[Len(result[w].chartData) - result[w].days + i].predicted

\* Sum of the predicted values over the horizon, in hundredths of a unit
HorizonTotal(w) ==
    SumSeq([i \in 1..result[w].days |-> HorizonPoint(w, i) \div 10000])

\* C17: optimalStock is totalPredicted x buffer rounded to the nearest
\* integer, with buffer 1.20 for a horizon of up to 7 days and 1.10 for a
\* longer one; when gap = optimalStock - currentStock is positive the
\* suggestion is to restock exactly gap units.
C17_OptimalStockAndGap ==
    \A w \in Workers :
        Recommended(w) =>
            /\ \A i \in 1..result[w].days : HorizonPoint(w, i) % 10000 = 0
            /\ 2 * Abs((Rec(w).optimal * 10000)
                       - (HorizonTotal(w) * (IF result[w].days <= 7 THEN 120 ELSE 110)))
                  <= 10000
            /\ Gap(w) > 0 => Rec(w).suggestion = "Restock" /\ Rec(w).amount = Gap(w)

C17_Witness ==
    \E w \in Workers :
        /\ Recommended(w)
        /\ result[w].days = 8
        /\ Rec(w).current = 14
        /\ Rec(w).amount > 0
        /\ 2 * Abs((Rec(w).optimal * 10000) - (HorizonTotal(w) * 120)) > 10000

\* C18: the trend is up exactly when the predicted value of the last
\* point of the horizon exceeds that of the first, whatever the stock and
\* the gap.
C18_TrendFromForecast ==
    \A w \in Workers :
        Recommended(w) =>
            (Rec(w).trend = "up" <=>
                 HorizonPoint(w, result[w].days) > HorizonPoint(w, 1))

\* C19: with gap <= 0 the urgency is low and the suggestion is "stock
\* sufficient" ("Stok Aman"), and "excess stock" when currentStock is
\* above optimalStock x 1.5.
C19_ExcessStockMarked ==
    \A w \in Workers :
        (Recommended(w) /\ Gap(w) <= 0) =>
            /\ Rec(w).urgency = "low"
            /\ Rec(w).suggestion = IF 2 * Rec(w).current > 3 * Rec(w).optimal
                                    THEN "excess stock" ELSE "Stok Aman"

\* C20: two predictions for the same SKU and horizon that read the same
\* model and the same metadata return the same chartData.
C20_PredictIdempotent ==
    \A w1, w2 \in Workers :
        (/\ Recommended(w1) /\ Recommended(w2)
         /\ result[w1].sku = result[w2].sku
         /\ result[w1].days = result[w2].days
         /\ result[w1].seenModel = result[w2].seenModel
         /\ result[w1].seenMeta = result[w2].seenMeta
         /\ result[w1].metaRun = result[w2].metaRun) =>
            result[w1].chartData = result[w2].chartData

\* C21: a forecast is computed only for a horizon within [1, 365]: no
\* call is at the collaborator's predict, and no prediction task exists,
\* with a horizon below 1 or above 365.
C21_HorizonWithinRange ==
    /\ \A w \in Workers :
          (op[w].call = "predict" /\ pc[w] \in {"forecast", "get_accuracy"}) =>
              (1 <= op[w].days /\ op[w].days <= 365)
    /\ \A id \in 1..Len(tasks) :
          tasks[id].name = "predict" => (1 <= tasks[id].days /\ tasks[id].days <= 365)

\* The recorded observation of the SKU on the date, if any
Observed(sku, ds) == {i \in 1..Len(sales[sku]) : sales[sku][i].ds = ds}

\* C22: in the frame passed to the collaborator's predict every date with
\* a recorded observation carries the promo flag recorded for that day,
\* and every date without one, so every date after the last recorded day,
\* carries promo = 0.
C22_PromoRegressor ==
    \A w \in Workers :
        Recommended(w) =>
            /\ Len(result[w].future) = Len(result[w].points)
            /\ \A k \in 1..Len(result[w].future) :
                  LET row == result[w].future[k]
                      sku == result[w].sku
                  IN  /\ row.ds = result[w].points[k].ds
                      /\ row.promo \in {0, 1}
                      /\ \A i \in Observed(sku, row.ds) : row.promo = sales[sku][i].promo
                      /\ Observed(sku, row.ds) = {} => row.promo = 0
                      /\ row.ds > sales[sku][Len(sales[sku])].ds => row.promo = 0

C22_Witness ==
    \E w \in Workers :
        /\ Recommended(w)
        /\ \E k \in 1..Len(result[w].future) :
              result[w].future[k].promo = 1 /\ Observed(result[w].sku, result[w].future[k].ds) # {}
        /\ \E k \in 1..Len(result[w].future) :
              /\ result[w].future[k].ds > sales[result[w].sku][Len(sales[result[w].sku])].ds
              /\ result[w].future[k].promo = 0

\* y_log of the i-th day of the SKU, and the two sums over all its days
YLogOf(sku, i) == Log1p(sales[sku][i].y)
SumY(sku) == SumSeq([i \in 1..Len(sales[sku]) |-> YLogOf(sku, i)])
SumYY(sku) == SumSeq([i \in 1..Len(sales[sku]) |-> YLogOf(sku, i) * YLogOf(sku, i)])

\* |y_log - mu| <= 3.5 sigma for a day with y_log = y, mu and sigma taken
\* over all n days: 4 (n - 1) (n y - sum)^2 <= 49 n spread, where spread,
\* n * sum of squares - square of the sum, is n^2 (n - 1) times the variance
Within35Sigma(y, n, sum, spread) ==
    ((n * y) - sum) * ((n * y) - sum) <= (49 * n * spread) \div (4 * (n - 1))

KeptDays(df, sum, spread) ==
    {df[i].ds : i \in {j \in 1..Len(df) :
                          spread = 0 \/ Within35Sigma(Log1p(df[j].y), Len(df), sum, spread)}}

\* The dates a stored model of the SKU must have been fitted on
DatesWithinSigma(sku) ==
    Only({ Only({ KeptDays(sales[sku], sum, (Len(sales[sku]) * sq) - (sum * sum)) :
                  sq \in {SumYY(sku)} }) :
           sum \in {SumY(sku)} })

\* C23: the dataset a stored model was fitted on holds exactly the days
\* with |y_log - mu| <= 3.5 sigma, mu and sigma over the whole series, each
\* once and in order; with sigma = 0 nothing is dropped; the 10,000-unit
\* day among sixty days of about ten units is not in it.
C23_OutliersRemoved ==
    \A s \in Skus :
        Readable(modelFile[s]) =>
            /\ \A kept \in {DatesWithinSigma(s)} :
                  /\ {modelFile[s].dates[k] : k \in 1..Len(modelFile[s].dates)} = kept
                  /\ Len(modelFile[s].dates) = Cardinality(kept)
            /\ \A k \in 1..(Len(modelFile[s].dates) - 1) :
                  modelFile[s].dates[k] < modelFile[s].dates[k + 1]
            /\ \A i \in 1..Len(sales[s]) :
                  sales[s][i].y = 10000 =>
                      \A k \in 1..Len(modelFile[s].dates) :
                          modelFile[s].dates[k] # sales[s][i].ds

C23_Witness ==
    /\ Readable(modelFile["A"])
    /\ Len(sales["A"]) = 61
    /\ Len(modelFile["A"].dates) = 60
    /\ Readable(modelFile["B"])
    /\ Len(modelFile["B"].dates) = 5

----------------------------------------------------------------------------
\* The predicted values of the rows dated after the last day of the model's
\* history, 0 for the others
AfterHistory(w) ==
    [i \in 1..Len(result[w].points) |->
        IF result[w].points[i].ds > result[w].historyEnd
        THEN result[w].points[i].yhat_corrected ELSE 0]

\* C27: totalPredicted is the sum of the predicted value over exactly the
\* requested horizon, the horizonDays forecast points dated after the last
\* date of the stored model's history; no in-sample point contributes.
C27_TotalOverHorizonOnly ==
    \A w \in Workers :
        Recommended(w) =>
            /\ Cardinality({i \in 1..Len(result[w].points) :
                               result[w].points[i].ds > result[w].historyEnd})
                  = result[w].days
            /\ result[w].totalPredicted = SumSeq(AfterHistory(w))

C27_Witness ==
    \E w \in Workers :
        /\ Recommended(w)
        /\ result[w].days = ShortWindow
        /\ Len(result[w].points) > result[w].days
        /\ result[w].points[1].yhat_corrected > 0
        /\ result[w].totalPredicted > 0

----------------------------------------------------------------------------
\* Caller w is inside train_product_model and this step returns from it
\* with status skipped or error
TrainingFails(w) ==
    /\ pc[w] \in {"fit", "write_model", "open_meta", "write_meta"}
    /\ pc'[w] = "idle"
    /\ result'[w].trained \in {"skipped", "error"}

\* The file holds what training run r put there
WrittenBy(file, r) == Exists(file) /\ file.run = r

\* C29: a training run for a SKU that ends with status skipped or error
\* leaves the stored model and metadata of that SKU both unchanged: when
\* the run returns, neither file is one that this run opened or wrote.
C29_FailedTrainingLeavesArtifacts ==
    [][\A w \in Workers :
          TrainingFails(w) =>
              /\ ~WrittenBy(modelFile'[op[w].sku], op[w].run)
              /\ ~WrittenBy(metaFile'[op[w].sku], op[w].run)]_vars

----------------------------------------------------------------------------
\* Caller w takes a step of predict on a model that exists: the call that
\* finds the model file, or a statement after line 179
PredictStep(w) ==
    /\ pc'[w] # pc[w]
    /\ \/ pc[w] = "idle" /\ pc'[w] = "read_model"
       \/ pc[w] \in {"read_model", "meta_exists", "read_meta", "forecast",
                     "get_accuracy"}

\* A training run is between its first open and its return for the SKU
Writing(sku) ==
    \E w \in Workers :
        pc[w] \in {"write_model", "open_meta", "write_meta"} /\ op[w].sku = sku

\* The file is not there or is the complete output of one training run
Whole(file) == ~Exists(file) \/ Readable(file)

\* C28: a predict for a SKU whose model exists changes no stored model and
\* no stored metadata; only a successful training changes them and it
\* replaces the artifacts of the SKU wholesale: outside a training run the
\* store holds, for each SKU, nothing or one complete model with the
\* metadata of the same training.
C28_StoreChangedOnlyBySuccessfulTraining ==
    /\ [][\A w \in Workers :
             PredictStep(w) => UNCHANGED <<modelFile, metaFile>>]_vars
    /\ [](\A s \in Skus :
             ~Writing(s) =>
                 /\ Whole(modelFile[s])
                 /\ Whole(metaFile[s])
                 /\ modelFile[s].run = metaFile[s].run)

----------------------------------------------------------------------------
\* The quantities sold of product id, summed over the ledger
SumSold(id) ==
    SumSeq([i \in 1..sequence.transaction |->
               IF \E s \in transactionTable :
                      s.transaction_id = i /\ s.product_id = id
               THEN (CHOOSE s \in transactionTable : s.transaction_id = i).quantity_sold
               ELSE 0])

\* This step is the return of a successful create_transaction of client c
SaleReturns(c) ==
    /\ session[c].pc = "sale_commit"
    /\ session'[c].pc = "idle"
    /\ session'[c].outcome = "ok"

\* The row of the product with the SKU before and after the step differ by
\* q units of stock, every other row is as it was
StockLoweredBy(sku, q) ==
    /\ First(productTable', sku).stock = First(productTable, sku).stock - q
    /\ \A r \in productTable : r.sku # sku => r \in productTable'
    /\ Cardinality(productTable') = Cardinality(productTable)

\* C24: a successful create_transaction for quantity q on a product records
\* one transaction with quantity_sold = q and lowers the stock of that
\* product by exactly q, the stock of every other product unchanged; after
\* any sequence of successful calls the stock is the initial stock minus
\* the sum of the quantities sold.
C24_SaleLowersStock ==
    /\ [][\A c \in Clients :
             SaleReturns(c) =>
                 /\ \E s \in transactionTable' :
                       /\ s \notin transactionTable
                       /\ transactionTable' = transactionTable \cup {s}
                       /\ s.quantity_sold = session[c].data.quantity
                       /\ s.product_id =
                             First(productTable, session[c].data.product_sku).product_id
                 /\ session'[c].quantity_sold = session[c].data.quantity
                 /\ StockLoweredBy(session[c].data.product_sku,
                                   session[c].data.quantity)]_vars
    /\ [](\A r \in productTable :
             r.stock = InitialStock[r.product_id] - SumSold(r.product_id))

C24_Witness ==
    /\ Cardinality(transactionTable) = 3
    /\ First(productTable, "A").stock = 0
    /\ First(productTable, "B").stock = 3
    /\ session["c1"].outcome = "ok"
    /\ session["c1"].quantity_sold = 3

----------------------------------------------------------------------------
\* The request names no SKU or no quantity, or a SKU no row of the table
\* has, or more units than the row of the SKU has in stock
Refused(data, table) ==
    \/ "product_sku" \notin data.keys
    \/ "quantity" \notin data.keys
    \/ First(table, data.product_sku) = NoRow
    \/ data.quantity > First(table, data.product_sku).stock

\* Client c takes a step of create_transaction
SaleStep(c) ==
    session'[c] # session[c] /\ session'[c].call = "create_transaction"

\* C25: create_transaction for a quantity greater than the current stock
\* of the product, for an unknown SKU, or with the product_sku or the
\* quantity field missing raises ValueError and leaves the stock of the
\* product and the recorded transactions unchanged.
C25_RefusedSaleChangesNothing ==
    [][\A c \in Clients :
          (SaleStep(c) /\ Refused(session'[c].data, productTable)) =>
              /\ UNCHANGED <<productTable, transactionTable>>
              /\ session'[c].pc \in {"idle", "sale_query"}
              /\ session[c].pc = "sale_query" => session'[c].pc = "idle"
              /\ session'[c].pc = "idle" => session'[c].outcome = "ValueError"]_vars

C25_Witness ==
    /\ session["c1"].call = "create_transaction"
    /\ session["c1"].outcome = "ValueError"
    /\ session["c1"].reason = "Insufficient stock"
    /\ session["c1"].data.quantity = 3
    /\ First(productTable, "A").stock = 2
    /\ Cardinality(transactionTable) = 2

----------------------------------------------------------------------------
\* C30: under any interleaving of concurrent create_transaction calls on
\* one product its stock never becomes negative and always equals the
\* initial stock minus the sum of the quantities of the committed
\* transactions.
C30_NoLostStockUpdate ==
    \A r \in productTable :
        /\ r.stock >= 0
        /\ r.stock + SumSold(r.product_id) = InitialStock[r.product_id]

----------------------------------------------------------------------------
\* Client c takes a step of the given call of ProductService
CatalogStep(c, call) ==
    session'[c] # session[c] /\ session'[c].call = call

\* The step ends the call with the ValueError "already exists" and the
\* products are what they were
RefusedAsDuplicate(c) ==
    /\ session'[c].pc = "idle"
    /\ session'[c].outcome = "ValueError"
    /\ session'[c].reason = "already exists"
    /\ UNCHANGED productTable

\* ProductService.get_product_by_sku finds a product
Retrievable(table, sku) == First(table, sku) # NoRow

\* C26: SKUs are unique.  create_product with a SKU that exists and
\* update_product renaming to a SKU that another product holds raise
\* ValueError "already exists" and leave the products unchanged; after any
\* sequence of create, update and delete at most one product has each
\* SKU, and a deleted SKU is no longer retrievable.
C26_SkusAreUnique ==
    /\ [](\A r1 \in productTable, r2 \in productTable :
             r1.sku = r2.sku => r1 = r2)
    /\ [][\A c \in Clients :
             /\ (/\ CatalogStep(c, "create_product")
                 /\ session[c].pc \in {"create_query", "create_commit"}
                 /\ Retrievable(productTable, session[c].data.sku))
                    => RefusedAsDuplicate(c)
             /\ (/\ CatalogStep(c, "update_product")
                 /\ session[c].pc \in {"update_check", "update_commit"}
                 /\ session[c].data.sku # session[c].sku
                 /\ Retrievable(productTable, session[c].data.sku))
                    => RefusedAsDuplicate(c)
             /\ (/\ CatalogStep(c, "delete_product")
                 /\ session'[c].outcome = "ok")
                    => ~Retrievable(productTable', session[c].sku)]_vars

C26_Witness ==
    /\ session["c1"].call = "update_product"
    /\ session["c1"].outcome = "ValueError"
    /\ session["c1"].reason = "already exists"
    /\ session["c1"].sku = "C"
    /\ session["c1"].data.sku = "B"
    /\ ~Retrievable(productTable, "A")
    /\ transactionTable = {}

============================================================================
